---- MODULE Spec2Model ----
(***************************************************************************)
(* A model of the LLM council pipeline: backend/council.py (the session    *)
(* state machine, blocking and streaming), backend/llm_service.py (node    *)
(* client, review round, review parser, chairman synthesis) and the part   *)
(* of backend/config.py that produces the roster.                          *)
(*                                                                         *)
(* asyncio is cooperative: the code between two awaits runs atomically, so *)
(* every action below is one such block (from a resume point to the next   *)
(* suspension point: an HTTP call in flight, a gather, a yield).           *)
(***************************************************************************)
EXTENDS Integers, Sequences, FiniteSets, TLC

\* ------------------------------------------------------------------ bounds
MaxMembers == 2
MaxSessions == 2
MaxTranscriptLen == 5
MaxCandidates == 2
\* The largest count a backend reply reports.
MaxTokenCount == 6

\* ------------------------------------------------------- program constants
DefaultFigure == 7
MinFigure == 1
MaxFigure == 10
LabelBase == 65

\* Optional[...] values: None is the empty sequence, a set value a singleton.
None == <<>>
Some(x) == <<x>>

Min2(a, b) == IF a <= b THEN a ELSE b
Max2(a, b) == IF a >= b THEN a ELSE b

\* ------------------------------------------------------------ enumerations
\* models.CouncilStage
PENDING == "pending"
FIRST_OPINIONS == "first_opinions"
REVIEW_RANKING == "review_ranking"
CHAIRMAN_SYNTHESIS == "chairman_synthesis"
COMPLETED == "completed"
ERROR == "error"

\* models.LLMStatus (ERROR is shared with CouncilStage: both are "error")
ONLINE == "online"
OFFLINE == "offline"
BUSY == "busy"

\* ------------------------------------------------------------------ config
\* Names a roster may use; "Counselor" is the name _node_from_dict gives a
\* member whose mapping has no "name" key.
NamePool == <<"Counselor", "Counselor-Alpha", "Counselor-Beta", "Counselor-Gamma">>
MemberNames == {NamePool[i] : i \in 1..Min2(MaxMembers, Len(NamePool))}

\* load_config: council_members is never empty (demo defaults fill it), names
\* are whatever the mappings say, so two members may carry the same name.
Rosters == UNION {[1..n -> MemberNames] : n \in 1..MaxMembers}

\* load_config: chairman is always a node, mode is "local" or "remote",
\* remote.base_url is a string or None.
Configs ==
    [council_members : Rosters,
     chairman : {Some("Chairman")},
     chairman_mode : {"local", "remote"},
     chairman_remote_base_url : {None, Some("http://remote")}]

\* ----------------------------------------------------------- review parser
\* A transcript is a sequence of tokens, the units the two regular
\* expressions of _parse_review_response look for:
\*   L v   an occurrence of the label "Response " + chr(v)
\*   Acc   the word "Accuracy"          Ins   the word "Insight"
\*   N v   a run of digits of value v   Big   a run of digits int() refuses
\*   Reas  the word "Reasoning" followed by its clause
Tok(k, v) == [k |-> k, v |-> v]
FigureValues == {0, 5, 11}

\* f"Response {chr(65 + i)}", i counted from 0: the label is its last
\* character's code point.
Label(i) == LabelBase + i

\* The least index >= from of a token of kind k (and value v when k = "L"),
\* or 0: what a lazy .*? followed by a literal finds.
FirstFrom(text, from, k, v) ==
    LET hits == {j \in from..Len(text) :
                    /\ text[j].k = k
                    /\ (k = "L" => text[j].v = v)}
    IN IF hits = {} THEN 0 ELSE CHOOSE j \in hits : \A h \in hits : j <= h

\* The least index >= from of a digit run (N or Big), or 0.
FirstDigits(text, from) ==
    LET hits == {j \in from..Len(text) : text[j].k \in {"N", "Big"}}
    IN IF hits = {} THEN 0 ELSE CHOOSE j \in hits : \A h \in hits : j <= h

\* re.search(label .*? Accuracy .*? (\d+) .*? Insight .*? (\d+)) with DOTALL:
\* the indices of the two captured digit runs, or <<>> when nothing matches.
ScoreMatch(anon_name, text) ==
    LET l == FirstFrom(text, 1, "L", anon_name)
        a == IF l = 0 THEN 0 ELSE FirstFrom(text, l + 1, "Acc", 0)
        n1 == IF a = 0 THEN 0 ELSE FirstDigits(text, a + 1)
        i == IF n1 = 0 THEN 0 ELSE FirstFrom(text, n1 + 1, "Ins", 0)
        n2 == IF i = 0 THEN 0 ELSE FirstDigits(text, i + 1)
    IN IF n2 = 0 THEN <<>> ELSE <<n1, n2>>

\* re.search(label .*? Reasoning[:\s]+([^\[]+)): is a clause found?
ReasoningMatch(anon_name, text) ==
    LET l == FirstFrom(text, 1, "L", anon_name)
    IN l # 0 /\ FirstFrom(text, l + 1, "Reas", 0) # 0

\* min(10, max(1, int(...)))
Clamp(x) == Min2(MaxFigure, Max2(MinFigure, x))

\* (acc + ins) // 2
CompositeRoundUp(acc, ins) == (acc + ins + 1) \div 2
Composite(acc, ins) == (acc + ins) \div 2

\* models.ReviewScore: Field(..., ge=1, le=10) on the three figures.
ReviewScoreValid(sc) ==
    /\ sc.score >= MinFigure /\ sc.score <= MaxFigure
    /\ sc.accuracy_score >= MinFigure /\ sc.accuracy_score <= MaxFigure
    /\ sc.insight_score >= MinFigure /\ sc.insight_score <= MaxFigure

MkScore(reviewer, cand, acc, ins, score, reasoning) ==
    [reviewer_name |-> reviewer, reviewed_name |-> cand.anon,
     original_name |-> cand.orig, score |-> score, reasoning |-> reasoning,
     accuracy_score |-> acc, insight_score |-> ins]

\* The except branch of the loop body.
FallbackScore(reviewer, cand) ==
    MkScore(reviewer, cand, DefaultFigure, DefaultFigure, DefaultFigure,
            "Parsing failed; default scores applied.")

\* One iteration of the loop of _parse_review_response.
ParseOne(reviewer_name, review_text, cand) ==
    LET m == ScoreMatch(cand.anon, review_text)
        raises == m # <<>> /\ (review_text[m[1]].k = "Big" \/ review_text[m[2]].k = "Big")
        acc == IF m # <<>> THEN Clamp(review_text[m[1]].v) ELSE DefaultFigure
        ins == IF m # <<>> THEN Clamp(review_text[m[2]].v) ELSE DefaultFigure
        reasoning == IF ReasoningMatch(cand.anon, review_text)
                     THEN "extracted" ELSE "No detailed reasoning extracted."
        sc == MkScore(reviewer_name, cand, acc, ins, Composite(acc, ins), reasoning)
    IN IF raises \/ ~ReviewScoreValid(sc) THEN FallbackScore(reviewer_name, cand) ELSE sc

_parse_review_response(reviewer_name, review_text, pool) ==
    [k \in 1..Len(pool) |-> ParseOne(reviewer_name, review_text, pool[k])]


\* ------------------------------------------------------------------- state
VARIABLES
    cfg,             \* config.get_config(): loaded once, then read only
    run,             \* per call of run_full_council / run_council_streaming:
                     \* its coroutine state and the session object it owns
    _sessions,       \* CouncilOrchestrator._sessions: session_id -> session (by run)
    _inflight,       \* CouncilOrchestrator._inflight
    _status_cache,   \* LLMService._status_cache: node name -> LLMStatus
    _latency_cache,  \* LLMService._latency_cache: the node names it holds
    parse_args,      \* arguments of a stand-alone _parse_review_response call
    parse_result,    \* and what it returned
    probe,           \* the last check_node_health call that returned
    token_call       \* a reply handed to generate_response and the count it gave

vars == <<cfg, run, _sessions, _inflight, _status_cache, _latency_cache,
          parse_args, parse_result, probe, token_call>>

RunIds == 1..MaxSessions
\* str(uuid.uuid4())[:8]: eight hexadecimal digits of a random UUID.
SessionIds == 1..MaxSessions

Roster == cfg.council_members
NMembers == Len(Roster)

Put(f, k, v) == [x \in DOMAIN f \cup {k} |-> IF x = k THEN v ELSE f[x]]
EmptyMap == [x \in {} |-> 0]

\* ----------------------------------------------------------------- session
\* models.CouncilSession; stage_log is a history field: every value assigned
\* to stage, in order.
NewSession(sid, user_query) ==
    [session_id |-> sid, query |-> user_query, stage |-> PENDING,
     first_opinions |-> <<>>, review_results |-> None,
     chairman_synthesis |-> None, completed_at |-> None,
     total_latency_ms |-> None, error_message |-> None,
     stage_log |-> <<PENDING>>]

SetStage(session, st) ==
    [session EXCEPT !.stage = st, !.stage_log = Append(@, st)]

IdleRun ==
    [mode |-> "none", pc |-> "idle", session |-> None, slots |-> <<>>,
     chair_call |-> "none", snapshots |-> <<>>, sent |-> <<>>, done |-> {}]

Sess(r) == run[r].session[1]
Created(r) == run[r].session # None

\* A request put on the wire: kind, target node name, roster index (0 = chairman).
Req(kind, node, idx) == [kind |-> kind, node |-> node, idx |-> idx]

\* A call that has ended: history of how each request of a run came out.
\* It keeps what of the outcome can reach the session: whether the call
\* succeeded, the transcript a reviewer returned, and for the chairman's call
\* the exception (a member's exception is logged and dropped).
Call(kind, idx, outcome, raw) ==
    [kind |-> kind, idx |-> idx, ok |-> (outcome = "ok"), raw |-> raw,
     exc |-> IF kind = "synthesis" THEN outcome ELSE "ok"]

PendingSlot == [st |-> "pending", val |-> <<>>]
DoneSlot(st, val) == [st |-> st, val |-> val]

\* ------------------------------------------------------------- node client
MarkBusyNever(cache, names) == cache
\* generate_response, before the await: the status cache entry goes BUSY.
MarkBusy(cache, names) ==
    [x \in DOMAIN cache \cup names |-> IF x \in names THEN BUSY ELSE cache[x]]

GenerateStatusOfReply(cache, name, outcome) ==
    Put(cache, name, IF outcome \in {"ok", "bad_status"} THEN ONLINE ELSE ERROR)
\* generate_response, after the await. outcome is "ok" (a 200 response),
\* "bad_status" (any other response) or "timeout" (httpx raised).
\* A response sets ONLINE and the latency; raising then sets ERROR.
GenerateStatus(cache, name, outcome) ==
    Put(cache, name, IF outcome = "ok" THEN ONLINE ELSE ERROR)
GenerateLatency(lat, name, outcome) ==
    IF outcome \in {"ok", "bad_status"} THEN lat \cup {name} ELSE lat

GenerateOutcomes == {"ok", "bad_status", "timeout"}
GenerateError(outcome) ==
    IF outcome = "bad_status" THEN "LLM returned status 500" ELSE "timeout"

\* The counters of a reply of /api/chat: a mapping that holds any of the two
\* keys, each with a count.
CountKeys == {"eval_count", "prompt_eval_count"}
Payloads == UNION {[K -> 0..MaxTokenCount] : K \in SUBSET CountKeys}

TokenCountSumFirst(payload) ==
    IF "prompt_eval_count" \in DOMAIN payload /\ "eval_count" \in DOMAIN payload
    THEN Some(payload["prompt_eval_count"] + payload["eval_count"])
    ELSE IF "eval_count" \in DOMAIN payload
    THEN Some(payload["eval_count"])
    ELSE None
\* generate_response, "token-ish stats when available": tokens = None, then
\* the if / elif on the keys of the payload.
TokenCount(payload) ==
    IF "eval_count" \in DOMAIN payload
    THEN Some(payload["eval_count"])
    ELSE IF "prompt_eval_count" \in DOMAIN payload /\ "eval_count" \in DOMAIN payload
    THEN Some(payload["prompt_eval_count"] + payload["eval_count"])
    ELSE None

\* get_node_status
get_node_status(node_name) ==
    IF node_name \in DOMAIN _status_cache THEN _status_cache[node_name] ELSE OFFLINE

\* check_node_health. How the GET on node.health_url comes out:
\*   "ok"            a 200 reply whose tag list names the node's model
\*   "model_missing" a 200 reply whose tag list does not name it
\*   "bad_status"    any other reply
\*   "timeout"       httpx.TimeoutException
\*   "transport"     another httpx error (connection refused, ...)
\*   "decode"        r.json() or the walk over its payload raises
ProbeOutcomes == {"ok", "model_missing", "bad_status", "timeout", "transport", "decode"}

\* The exception the try block ends with, "none" when it returns.
ProbeException(outcome) ==
    CASE outcome = "timeout" -> "httpx.TimeoutException"
      [] outcome = "transport" -> "httpx.ConnectError"
      [] outcome = "decode" -> "ValueError"
      [] OTHER -> "none"

\* Every class above derives from Exception, httpx.TimeoutException among them.
ExceptionClasses == {"httpx.TimeoutException", "httpx.ConnectError", "ValueError"}

ProbeLatencyOnAnyReply(lat, name, outcome) ==
    IF outcome \in {"ok", "model_missing", "bad_status"} THEN lat \cup {name} ELSE lat
\* self._latency_cache[node.name] = dt, on the path that returns ONLINE only.
ProbeLatency(lat, name, outcome) ==
    IF outcome \in {"ok", "model_missing"} THEN lat \cup {name} ELSE lat

\* What check_node_health hands back: raised is whether an exception leaves
\* it, status and latency the pair it returns.
HealthResult(outcome) ==
    LET exc == ProbeException(outcome)
    IN IF exc = "none"
       THEN IF outcome = "bad_status"
            THEN [raised |-> FALSE, status |-> ERROR, latency |-> None]
            ELSE [raised |-> FALSE, status |-> ONLINE, latency |-> Some("dt")]
       ELSE IF exc = "httpx.TimeoutException"
       THEN [raised |-> FALSE, status |-> OFFLINE, latency |-> None]
       ELSE IF exc \in ExceptionClasses
       THEN [raised |-> FALSE, status |-> OFFLINE, latency |-> None]
       ELSE [raised |-> TRUE, status |-> None, latency |-> None]

\* ------------------------------------------------------------ review round
\* get_all_reviews: the anonymized bundle, labels in list order.
AnonBundle(first_opinions) ==
    [i \in 1..Len(first_opinions) |->
        [anon |-> Label(i - 1), txt |-> first_opinions[i].response,
         orig |-> first_opinions[i].llm_name]]

\* get_review: every candidate except the reviewer's own.
ReviewPoolNoExclusion(responses, exclude_name) == responses
ReviewPool(responses, exclude_name) ==
    SelectSeq(responses, LAMBDA c : c.orig # exclude_name)

\* The transcripts a reviewer of the pipeline may answer with: nothing usable,
\* or the requested template filled with one pair of figures per candidate.
TemplateTranscript(pool, acc, ins) ==
    [k \in 1..(6 * Len(pool)) |->
        LET c == pool[((k - 1) \div 6) + 1]
            f == (k - 1) % 6
        IN CASE f = 0 -> Tok("L", c.anon)
             [] f = 1 -> Tok("Acc", 0)
             [] f = 2 -> Tok("N", acc)
             [] f = 3 -> Tok("Ins", 0)
             [] f = 4 -> Tok("N", ins)
             [] OTHER -> Tok("Reas", 0)]
ReviewFigures == {<<0, 12>>}
PipelineTranscripts(pool) ==
    {<<>>} \cup {TemplateTranscript(pool, p[1], p[2]) : p \in ReviewFigures}

RECURSIVE Flatten(_)
Flatten(seqs) == IF seqs = <<>> THEN <<>> ELSE Head(seqs) \o Flatten(Tail(seqs))

RECURSIVE SumSeq(_)
SumSeq(s) == IF s = <<>> THEN 0 ELSE Head(s) + SumSeq(Tail(s))

\* get_all_reviews: buckets by original_name and their averages, kept as
\* <<sum, count>> (the mean is sum / count).
Averages(all_scores) ==
    LET names == {all_scores[k].original_name : k \in 1..Len(all_scores)}
        vals(n) == SelectSeq([k \in 1..Len(all_scores) |->
                                 IF all_scores[k].original_name = n
                                 THEN all_scores[k].score ELSE -1],
                             LAMBDA v : v >= 0)
    IN [n \in names |-> <<SumSeq(vals(n)), Len(vals(n))>>]


\* ------------------------------------------------------- pipeline: helpers
Blocking(rr) == rr.mode = "blocking"

ExitsOnReturnOnly(pc) == pc = "returned"
\* try/finally of run_full_council: the finally clause runs when the call
\* returns and when it raises.
ExitsBlocking(pc) == pc \in {"returned", "raised"}

\* The finally clause of both runners.
Finally(n) == n - 1
\* self._inflight += 1
Enter(n) == n + 1

YieldSkipped(rr, at) == [rr EXCEPT !.pc = at]
\* yield session: the consumer (main.council_query_stream) serialises the
\* session as it receives it.
Yield(rr, at) == [rr EXCEPT !.pc = at, !.snapshots = Append(@, rr.session[1])]

OnPipelineErrorDropsResults(session, msg) ==
    [SetStage(session, ERROR) EXCEPT !.error_message = Some(msg),
                                     !.review_results = None]
OnPipelineErrorNoStage(session, msg) == [session EXCEPT !.error_message = Some(msg)]
\* except Exception as e: stage = ERROR, error_message = str(e)
OnPipelineError(session, msg) ==
    [SetStage(session, ERROR) EXCEPT !.error_message = Some(msg)]

FailStreamingNoMessage(rr, msg) ==
    IF Blocking(rr)
    THEN [rr EXCEPT !.session = Some(OnPipelineError(rr.session[1], msg)), !.pc = "raised"]
    ELSE Yield([rr EXCEPT !.session = Some(SetStage(rr.session[1], ERROR))], "yield_error")
FailReraise(rr, msg) ==
    [rr EXCEPT !.session = Some(OnPipelineError(rr.session[1], msg)), !.pc = "raised"]
\* The except clause, then what follows it: run_full_council re-raises (and
\* leaves through finally), run_council_streaming yields the session.
Fail(rr, msg) ==
    LET failed == [rr EXCEPT !.session = Some(OnPipelineError(rr.session[1], msg))]
    IN IF Blocking(rr) THEN [failed EXCEPT !.pc = "raised"]
                       ELSE Yield(failed, "yield_error")

StageFirstOpinionsResent(rr) ==
    [rr EXCEPT !.session = Some(SetStage(rr.session[1], FIRST_OPINIONS)),
               !.slots = [i \in 1..NMembers |-> PendingSlot],
               !.sent = @ \o [i \in 1..NMembers |-> Req("opinion", Roster[i], i)]
                          \o [i \in 1..NMembers |-> Req("opinion", Roster[i], i)],
               !.pc = "phase1"]
\* _stage_first_opinions up to its await: the stage, then one
\* get_first_opinion per council member under asyncio.gather.
StageFirstOpinions(rr) ==
    [rr EXCEPT !.session = Some(SetStage(rr.session[1], FIRST_OPINIONS)),
               !.slots = [i \in 1..NMembers |-> PendingSlot],
               !.sent = @ \o [i \in 1..NMembers |-> Req("opinion", Roster[i], i)],
               !.pc = "phase1"]

RemoteBaseUrlAssumed(c) == FALSE
\* if not cfg.chairman_remote_base_url
RemoteBaseUrlMissing(c) == c.chairman_remote_base_url = None

StageReviewsNoCheck(session) == TRUE
\* if not session.first_opinions: raise ValueError(...)
StageReviewsPrecondition(session) == session.first_opinions # <<>>
StageChairmanPrecondition(session) == session.first_opinions # <<>>

ReviewPools(session) ==
    [j \in 1..NMembers |-> ReviewPool(AnonBundle(session.first_opinions), Roster[j])]

\* The stage _stage_reviews assigns.
ReviewsStageRepeated == FIRST_OPINIONS
ReviewsStage == REVIEW_RANKING

\* _stage_reviews up to its await: the precondition, the stage, then one
\* get_review per council member; a reviewer with an empty pool returns []
\* without a node call.
StageReviews(rr) ==
    LET s == rr.session[1]
        pools == ReviewPools(s)
        reqs == [j \in 1..NMembers |-> Req("review", Roster[j], j)]
    IN IF ~StageReviewsPrecondition(s)
       THEN Fail(rr, "Stage 2 requires stage 1 outputs (first_opinions).")
       ELSE [rr EXCEPT !.session = Some(SetStage(s, ReviewsStage)),
                       !.slots = [j \in 1..NMembers |->
                                     IF pools[j] = <<>> THEN DoneSlot("ok", <<>>)
                                                        ELSE PendingSlot],
                       !.sent = @ \o SelectSeq(reqs, LAMBDA q : pools[q.idx] # <<>>),
                       !.pc = "phase2"]

\* _stage_chairman up to its await, get_chairman_synthesis included: the
\* precondition, the stage, the configuration checks, then the one call.
StageChairman(rr) ==
    LET s == rr.session[1]
        staged == [rr EXCEPT !.session = Some(SetStage(s, CHAIRMAN_SYNTHESIS))]
    IN IF ~StageChairmanPrecondition(s)
       THEN Fail(rr, "Stage 3 requires stage 1 outputs (first_opinions).")
       ELSE IF cfg.chairman_mode = "remote"
       THEN IF RemoteBaseUrlMissing(cfg)
            THEN Fail(staged, "chairman.mode=remote but chairman.remote.base_url is missing in config.yaml")
            ELSE [staged EXCEPT !.pc = "phase3", !.chair_call = "remote",
                                !.sent = Append(@, Req("synthesis_remote", "remote", 0))]
       ELSE IF cfg.chairman = None
            THEN Fail(staged, "No chairman configured")
            ELSE [staged EXCEPT !.pc = "phase3", !.chair_call = "local",
                                !.sent = Append(@, Req("synthesis_local", cfg.chairman[1], 0))]

StageChairmanDoneUnstamped(rr) ==
    LET s == rr.session[1]
        name == IF rr.chair_call = "local" THEN cfg.chairman[1] ELSE "Remote-Chairman"
        done == [SetStage([s EXCEPT !.chairman_synthesis = Some([chairman_name |-> name])],
                          COMPLETED)
                    EXCEPT !.total_latency_ms = Some("elapsed")]
        rr2 == [rr EXCEPT !.session = Some(done), !.chair_call = "none"]
    IN IF Blocking(rr) THEN [rr2 EXCEPT !.pc = "returned"] ELSE Yield(rr2, "yield_final")
\* The end of _stage_chairman and of the runner's try block.
StageChairmanDone(rr) ==
    LET s == rr.session[1]
        name == IF rr.chair_call = "local" THEN cfg.chairman[1] ELSE "Remote-Chairman"
        done == [SetStage([s EXCEPT !.chairman_synthesis = Some([chairman_name |-> name])],
                          COMPLETED)
                    EXCEPT !.completed_at = Some("utcnow"),
                           !.total_latency_ms = Some("elapsed")]
        rr2 == [rr EXCEPT !.session = Some(done), !.chair_call = "none"]
    IN IF Blocking(rr) THEN [rr2 EXCEPT !.pc = "returned"] ELSE Yield(rr2, "yield_final")

\* The node names whose generate_response starts when rr enters a phase.
Issued(rr) ==
    CASE rr.pc \in {"phase1", "phase2"} ->
            {Roster[i] : i \in {j \in 1..Len(rr.slots) : rr.slots[j].st = "pending"}}
      [] rr.pc = "phase3" /\ rr.chair_call = "local" -> {cfg.chairman[1]}
      [] OTHER -> {}

CommitSharedError(r, rr, cache) ==
    /\ run' = [x \in RunIds |->
                  IF x = r THEN rr
                  ELSE IF rr.session[1].stage = ERROR /\ run[x].session # None
                       THEN [run[x] EXCEPT !.session[1].error_message =
                                               rr.session[1].error_message]
                       ELSE run[x]]
    /\ _status_cache' = IF rr.pc # run[r].pc THEN MarkBusy(cache, Issued(rr)) ELSE cache
    /\ _inflight' = IF ExitsBlocking(rr.pc) THEN Finally(_inflight) ELSE _inflight
\* What a step of run r leaves behind: the coroutine state, the status cache
\* (cache is the cache as the step's completed call left it) and the in-flight
\* counter when the step leaves a blocking run.
Commit(r, rr, cache) ==
    /\ run' = [run EXCEPT ![r] = rr]
    /\ _status_cache' = IF rr.pc # run[r].pc THEN MarkBusy(cache, Issued(rr)) ELSE cache
    /\ _inflight' = IF ExitsBlocking(rr.pc) THEN Finally(_inflight) ELSE _inflight


\* ------------------------------------------------------- pipeline: actions
Queries == {"2+2?"}

\* create_session: self._sessions[sid] = session (the session of run r).
create_session(sid, r) == Put(_sessions, sid, r)

\* The identifiers create_session may draw: nothing compares str(uuid4())[:8]
\* with the keys of the store, so it is one of them or a new one; the
\* identifiers not in use are interchangeable and the least stands for all.
NewSessionIds ==
    LET free == SessionIds \ DOMAIN _sessions
    IN DOMAIN _sessions \cup {sid \in free : \A o \in free : sid <= o}

\* get_all_sessions
get_all_sessions == {run[_sessions[sid]].session[1] : sid \in DOMAIN _sessions}

\* get_session
get_session(sid) == IF sid \in DOMAIN _sessions THEN run[_sessions[sid]].session ELSE None

\* total_sessions
total_sessions == Cardinality(DOMAIN _sessions)

\* active_sessions
active_sessions == _inflight

CanStart(r) == run[r].pc = "idle" /\ (IF r = 1 THEN TRUE ELSE run[r - 1].pc # "idle")

AnyDone(rr) == \E i \in 1..Len(rr.slots) : rr.slots[i].st # "pending"
\* asyncio.gather returns when every job has ended.
AllDone(rr) == \A i \in 1..Len(rr.slots) : rr.slots[i].st # "pending"

\* run_full_council, from its entry to the await of the first gather.
RunFullCouncil(r) ==
    /\ CanStart(r)
    /\ \E sid \in NewSessionIds, q \in Queries :
          LET created == [IdleRun EXCEPT !.mode = "blocking",
                                         !.session = Some(NewSession(sid, q))]
              rr == StageFirstOpinions(created)
          IN /\ run' = [run EXCEPT ![r] = rr]
             /\ _sessions' = create_session(sid, r)
             /\ _inflight' = Enter(_inflight)
             /\ _status_cache' = MarkBusy(_status_cache, Issued(rr))
    /\ UNCHANGED <<cfg, _latency_cache, parse_args, parse_result, probe, token_call>>

\* run_council_streaming, from the first __anext__ to the first yield.
RunCouncilStreaming(r) ==
    /\ CanStart(r)
    /\ \E sid \in NewSessionIds, q \in Queries :
          LET created == [IdleRun EXCEPT !.mode = "streaming",
                                         !.session = Some(NewSession(sid, q))]
          IN /\ run' = [run EXCEPT ![r] = Yield(created, "yield_pending")]
             /\ _sessions' = create_session(sid, r)
             /\ _inflight' = Enter(_inflight)
    /\ UNCHANGED <<cfg, _status_cache, _latency_cache, parse_args, parse_result, probe, token_call>>

\* The consumer asks for the next snapshot after the pending one.
ResumePending(r) ==
    /\ run[r].pc = "yield_pending"
    /\ Commit(r, StageFirstOpinions(run[r]), _status_cache)
    /\ UNCHANGED <<cfg, _sessions, _latency_cache, parse_args, parse_result, probe, token_call>>

\* get_first_opinion of member i returns or raises (generate_response ends).
OpinionDone(r, i, outcome) ==
    /\ run[r].pc = "phase1"
    /\ run[r].slots[i].st = "pending"
    /\ LET res == IF outcome = "ok"
                  THEN DoneSlot("ok", <<[llm_name |-> Roster[i], response |-> i]>>)
                  ELSE DoneSlot("exc", <<>>)
       IN Commit(r, [run[r] EXCEPT !.slots[i] = res,
                                   !.done = @ \cup {Call("opinion", i, outcome, <<>>)}],
                 GenerateStatus(_status_cache, Roster[i], outcome))
    /\ _latency_cache' = GenerateLatency(_latency_cache, Roster[i], outcome)
    /\ UNCHANGED <<cfg, _sessions, parse_args, parse_result, probe, token_call>>

CollectOpinionsReversed(slots) ==
    Flatten([i \in 1..Len(slots) |-> slots[Len(slots) + 1 - i].val])
\* get_all_first_opinions after the gather: the results that are no exception,
\* in the order of the jobs.
CollectOpinions(slots) == Flatten([i \in 1..Len(slots) |-> slots[i].val])

\* The gather of phase 1 is done: _stage_first_opinions ends; the blocking
\* runner goes on into _stage_reviews, the streaming one yields.
JoinFirstOpinions(r) ==
    /\ run[r].pc = "phase1"
    /\ AllDone(run[r])
    /\ LET rr == [run[r] EXCEPT !.session[1].first_opinions = CollectOpinions(run[r].slots),
                                !.slots = <<>>]
       IN Commit(r, IF Blocking(rr) THEN StageReviews(rr) ELSE Yield(rr, "yield_phase1"),
                 _status_cache)
    /\ UNCHANGED <<cfg, _sessions, _latency_cache, parse_args, parse_result, probe, token_call>>

ResumePhase1(r) ==
    /\ run[r].pc = "yield_phase1"
    /\ Commit(r, StageReviews(run[r]), _status_cache)
    /\ UNCHANGED <<cfg, _sessions, _latency_cache, parse_args, parse_result, probe, token_call>>

GetReviewDefaultsOnFailure(reviewer_name, raw, pool, outcome) ==
    IF outcome = "ok" THEN _parse_review_response(reviewer_name, raw, pool)
                      ELSE [k \in 1..Len(pool) |-> FallbackScore(reviewer_name, pool[k])]
\* get_review after its await: the transcript is parsed; an exception of the
\* call is logged and gives [].
GetReview(reviewer_name, raw, pool, outcome) ==
    IF outcome = "ok" THEN _parse_review_response(reviewer_name, raw, pool) ELSE <<>>

\* get_review of reviewer j ends.
ReviewDone(r, j, outcome) ==
    /\ run[r].pc = "phase2"
    /\ run[r].slots[j].st = "pending"
    /\ LET pool == ReviewPools(Sess(r))[j]
       IN \E raw \in IF outcome = "ok" THEN PipelineTranscripts(pool) ELSE {<<>>} :
             LET scores == GetReview(Roster[j], raw, pool, outcome)
             IN Commit(r, [run[r] EXCEPT !.slots[j] = DoneSlot("ok", scores),
                                         !.done = @ \cup {Call("review", j, outcome, raw)}],
                       GenerateStatus(_status_cache, Roster[j], outcome))
    /\ _latency_cache' = GenerateLatency(_latency_cache, Roster[j], outcome)
    /\ UNCHANGED <<cfg, _sessions, parse_args, parse_result, probe, token_call>>

CollectReviewsLastOnly(slots) ==
    LET all_scores == IF slots = <<>> THEN <<>> ELSE slots[Len(slots)].val
    IN [reviews |-> all_scores, rankings |-> Averages(all_scores)]
\* get_all_reviews after the gather.
CollectReviews(slots) ==
    LET all_scores == Flatten([j \in 1..Len(slots) |-> slots[j].val])
    IN [reviews |-> all_scores, rankings |-> Averages(all_scores)]

JoinReviews(r) ==
    /\ run[r].pc = "phase2"
    /\ AllDone(run[r])
    /\ LET rr == [run[r] EXCEPT !.session[1].review_results = Some(CollectReviews(run[r].slots)),
                                !.slots = <<>>]
       IN Commit(r, IF Blocking(rr) THEN StageChairman(rr) ELSE Yield(rr, "yield_phase2"),
                 _status_cache)
    /\ UNCHANGED <<cfg, _sessions, _latency_cache, parse_args, parse_result, probe, token_call>>

ResumePhase2(r) ==
    /\ run[r].pc = "yield_phase2"
    /\ Commit(r, StageChairman(run[r]), _status_cache)
    /\ UNCHANGED <<cfg, _sessions, _latency_cache, parse_args, parse_result, probe, token_call>>

RemoteError(outcome) ==
    IF outcome = "bad_status" THEN "Remote chairman error 500: " ELSE "timeout"

OnSynthesisErrorFallback(rr, msg) ==
    IF rr.chair_call = "remote"
    THEN [rr EXCEPT !.chair_call = "local",
                    !.sent = Append(@, Req("synthesis_local", cfg.chairman[1], 0))]
    ELSE Fail([rr EXCEPT !.chair_call = "none"], msg)
\* get_chairman_synthesis raises (the remote branch logs and re-raises, the
\* local branch lets generate_response's exception through) and the runner's
\* except clause takes it.
OnSynthesisError(rr, msg) == Fail([rr EXCEPT !.chair_call = "none"], msg)

\* The chairman's call ends (generate_response on the local node, or the POST
\* to the remote service), and with it get_chairman_synthesis.
ChairmanDone(r, outcome) ==
    /\ run[r].pc = "phase3"
    /\ LET local == run[r].chair_call = "local"
           chair == cfg.chairman[1]
           ended == [run[r] EXCEPT !.done = @ \cup {Call("synthesis", 0, outcome, <<>>)}]
           rr == IF outcome = "ok"
                 THEN StageChairmanDone(ended)
                 ELSE OnSynthesisError(ended,
                           IF local THEN GenerateError(outcome) ELSE RemoteError(outcome))
       IN /\ Commit(r, rr, IF local THEN GenerateStatus(_status_cache, chair, outcome)
                                    ELSE _status_cache)
          /\ _latency_cache' = IF local THEN GenerateLatency(_latency_cache, chair, outcome)
                                        ELSE _latency_cache
    /\ UNCHANGED <<cfg, _sessions, parse_args, parse_result, probe, token_call>>

YieldPoints == {"yield_pending", "yield_phase1", "yield_phase2", "yield_final", "yield_error"}
LastYieldsFinalOnly == {"yield_final"}
\* The yields after which the generator's body has nothing left to run.
LastYields == {"yield_final", "yield_error"}

\* The consumer asks for a snapshot after the last one: the generator runs
\* its finally clause and ends.
StreamFinish(r) ==
    /\ run[r].pc \in LastYields
    /\ run' = [run EXCEPT ![r].pc = "exhausted"]
    /\ _inflight' = Finally(_inflight)
    /\ UNCHANGED <<cfg, _sessions, _status_cache, _latency_cache, parse_args, parse_result, probe, token_call>>

CloseCaught(rr) ==
    [rr EXCEPT !.session = Some(OnPipelineError(rr.session[1], "GeneratorExit")),
               !.pc = "closed"]
\* GeneratorExit raised at the yield where the generator is suspended: it is
\* no Exception, so the except clause is passed over and the body is left.
Close(rr) == [rr EXCEPT !.pc = "closed"]

\* The consumer goes away and the suspended generator is closed; only the
\* finally clause runs.
StreamClose(r) ==
    /\ run[r].pc \in YieldPoints
    /\ run' = [run EXCEPT ![r] = Close(run[r])]
    /\ _inflight' = Finally(_inflight)
    /\ UNCHANGED <<cfg, _sessions, _status_cache, _latency_cache, parse_args, parse_result, probe, token_call>>

\* check_all_nodes_health probes the members and the chairman.
ProbedNodes == {Roster[i] : i \in 1..NMembers} \cup {cfg.chairman[1]}

\* One check_node_health from the reply of its GET to its return: the status
\* cache entry, the latency cache entry on success, and the pair returned.
CheckNodeHealth(node, outcome) ==
    LET res == HealthResult(outcome)
    IN /\ ~res.raised
       /\ _status_cache' = Put(_status_cache, node, res.status)
       /\ _latency_cache' = ProbeLatency(_latency_cache, node, outcome)
       /\ probe' = Some([node |-> node, outcome |-> outcome,
                         status |-> res.status, latency |-> res.latency])
       /\ UNCHANGED <<cfg, run, _sessions, _inflight, parse_args, parse_result, token_call>>

\* One request, under every configuration the loader can produce.
Init ==
    /\ cfg \in Configs
    /\ run = [r \in RunIds |-> IF r = 1 THEN IdleRun ELSE [IdleRun EXCEPT !.pc = "unused"]]
    /\ _sessions = EmptyMap
    /\ _inflight = 0
    /\ _status_cache = EmptyMap
    /\ _latency_cache = {}
    /\ parse_args = None
    /\ parse_result = None
    /\ probe = None
    /\ token_call = None

Next ==
    \E r \in RunIds :
        \/ RunFullCouncil(r)
        \/ RunCouncilStreaming(r)
        \/ ResumePending(r)
        \/ \E i \in 1..NMembers, o \in GenerateOutcomes : OpinionDone(r, i, o)
        \/ JoinFirstOpinions(r)
        \/ ResumePhase1(r)
        \/ \E j \in 1..NMembers, o \in GenerateOutcomes : ReviewDone(r, j, o)
        \/ JoinReviews(r)
        \/ ResumePhase2(r)
        \/ \E o \in GenerateOutcomes : ChairmanDone(r, o)
        \/ StreamFinish(r)
        \/ StreamClose(r)

Spec == Init /\ [][Next]_vars

\* Every backend call returns or fails within its timeout, the event loop
\* resumes a gather whose jobs have all ended, and a consumer that has not
\* closed the stream asks for the next snapshot. Nothing obliges a request to
\* arrive or a consumer to close.
Fairness ==
    \A r \in RunIds :
        /\ WF_vars(ResumePending(r))
        /\ WF_vars(\E i \in 1..NMembers, o \in GenerateOutcomes : OpinionDone(r, i, o))
        /\ WF_vars(JoinFirstOpinions(r))
        /\ WF_vars(ResumePhase1(r))
        /\ WF_vars(\E j \in 1..NMembers, o \in GenerateOutcomes : ReviewDone(r, j, o))
        /\ WF_vars(JoinReviews(r))
        /\ WF_vars(ResumePhase2(r))
        /\ WF_vars(\E o \in GenerateOutcomes : ChairmanDone(r, o))
        /\ WF_vars(StreamFinish(r))

SpecLive == Init /\ [][Next]_vars /\ Fairness

\* Up to MaxSessions concurrent requests, blocking and streaming, against a
\* council of one member.
ConcConfigs == {c \in Configs : c.council_members = <<NamePool[1]>>}
InitConc ==
    /\ cfg \in ConcConfigs
    /\ run = [r \in RunIds |-> IdleRun]
    /\ _sessions = EmptyMap
    /\ _inflight = 0
    /\ _status_cache = EmptyMap
    /\ _latency_cache = {}
    /\ parse_args = None
    /\ parse_result = None
    /\ probe = None
    /\ token_call = None

\* With one member every reviewer's pool is empty, so no review call is ever
\* in flight and ReviewDone has nothing to complete.
NextConc ==
    \E r \in RunIds :
        \/ RunFullCouncil(r)
        \/ RunCouncilStreaming(r)
        \/ ResumePending(r)
        \/ \E i \in 1..NMembers, o \in GenerateOutcomes : OpinionDone(r, i, o)
        \/ JoinFirstOpinions(r)
        \/ ResumePhase1(r)
        \/ JoinReviews(r)
        \/ ResumePhase2(r)
        \/ \E o \in GenerateOutcomes : ChairmanDone(r, o)
        \/ StreamFinish(r)
        \/ StreamClose(r)

SpecConc == InitConc /\ [][NextConc]_vars

\* Health probes (GET /api/health, GET /api/status) arriving at any moment of
\* one request against a council of one member.
InitProbe ==
    /\ cfg \in ConcConfigs
    /\ run = [r \in RunIds |-> IF r = 1 THEN IdleRun ELSE [IdleRun EXCEPT !.pc = "unused"]]
    /\ _sessions = EmptyMap
    /\ _inflight = 0
    /\ _status_cache = EmptyMap
    /\ _latency_cache = {}
    /\ parse_args = None
    /\ parse_result = None
    /\ probe = None
    /\ token_call = None

NextProbe ==
    \/ NextConc
    \/ \E node \in ProbedNodes, o \in ProbeOutcomes : CheckNodeHealth(node, o)

SpecProbe == InitProbe /\ [][NextProbe]_vars

\* Up to MaxSessions concurrent requests with health probes arriving at any
\* moment: every writer of the two caches, interleaved. The chairman is the
\* local node, the remote service having no entry in the caches.
SharedConfigs ==
    {c \in ConcConfigs : c.chairman_mode = "local" /\ c.chairman_remote_base_url = None}
InitShared ==
    /\ cfg \in SharedConfigs
    /\ run = [r \in RunIds |-> IdleRun]
    /\ _sessions = EmptyMap
    /\ _inflight = 0
    /\ _status_cache = EmptyMap
    /\ _latency_cache = {}
    /\ parse_args = None
    /\ parse_result = None
    /\ probe = None
    /\ token_call = None

NextShared ==
    \/ NextConc
    \/ \E node \in ProbedNodes, o \in ProbeOutcomes : CheckNodeHealth(node, o)

SpecShared == InitShared /\ [][NextShared]_vars

\* generate_response on a 200 reply, for every combination of counters.
InitTokens ==
    /\ cfg \in ConcConfigs
    /\ run = [r \in RunIds |-> [IdleRun EXCEPT !.pc = "unused"]]
    /\ _sessions = EmptyMap
    /\ _inflight = 0
    /\ _status_cache = EmptyMap
    /\ _latency_cache = {}
    /\ parse_args = None
    /\ parse_result = None
    /\ probe = None
    /\ token_call \in {Some([payload |-> p, returned |-> FALSE, tokens |-> None]) :
                           p \in Payloads}

\* payload = r.json() ... return text, dt, tokens
GenerateReturn ==
    /\ token_call # None
    /\ ~token_call[1].returned
    /\ token_call' = Some([token_call[1] EXCEPT
                               !.returned = TRUE,
                               !.tokens = TokenCount(token_call[1].payload)])
    /\ UNCHANGED <<cfg, run, _sessions, _inflight, _status_cache, _latency_cache,
                   parse_args, parse_result, probe>>

SpecTokens == InitTokens /\ [][GenerateReturn]_vars

\* The same query served twice under one configuration: by run_full_council,
\* and once that call has ended by run_council_streaming, consumed to its end,
\* with every backend call of the second run ending as the same call of the
\* first run did.
BlockingRun == 1
StreamingRun == 2
Replayed == run'[StreamingRun].done \subseteq run[BlockingRun].done

InitPair ==
    /\ cfg \in Configs
    /\ run = [r \in RunIds |-> IF r \in {BlockingRun, StreamingRun}
                               THEN IdleRun ELSE [IdleRun EXCEPT !.pc = "unused"]]
    /\ _sessions = EmptyMap
    /\ _inflight = 0
    /\ _status_cache = EmptyMap
    /\ _latency_cache = {}
    /\ parse_args = None
    /\ parse_result = None
    /\ probe = None
    /\ token_call = None

NextPair ==
    \/ RunFullCouncil(BlockingRun)
    \/ \E i \in 1..NMembers, o \in GenerateOutcomes : OpinionDone(BlockingRun, i, o)
    \/ JoinFirstOpinions(BlockingRun)
    \/ \E j \in 1..NMembers, o \in GenerateOutcomes : ReviewDone(BlockingRun, j, o)
    \/ JoinReviews(BlockingRun)
    \/ \E o \in GenerateOutcomes : ChairmanDone(BlockingRun, o)
    \/ run[BlockingRun].pc \in {"returned", "raised"} /\ RunCouncilStreaming(StreamingRun)
    \/ ResumePending(StreamingRun)
    \/ \E i \in 1..NMembers, o \in GenerateOutcomes :
          OpinionDone(StreamingRun, i, o) /\ Replayed
    \/ JoinFirstOpinions(StreamingRun)
    \/ ResumePhase1(StreamingRun)
    \/ \E j \in 1..NMembers, o \in GenerateOutcomes :
          ReviewDone(StreamingRun, j, o) /\ Replayed
    \/ JoinReviews(StreamingRun)
    \/ ResumePhase2(StreamingRun)
    \/ \E o \in GenerateOutcomes : ChairmanDone(StreamingRun, o) /\ Replayed
    \/ StreamFinish(StreamingRun)

SpecPair == InitPair /\ [][NextPair]_vars


\* ------------------------------------------- the review parser on its own
\* Every transcript of at most MaxTranscriptLen tokens over the labels of a
\* full council, the three marker words, and digit runs below, inside and
\* above the range of a figure or too long for int().
Tokens ==
    {Tok("L", Label(i)) : i \in 0..(MaxMembers - 1)}
        \cup {Tok("Acc", 0), Tok("Ins", 0), Tok("Reas", 0), Tok("Big", 0)}
        \cup {Tok("N", v) : v \in FigureValues}
Transcripts == UNION {[1..n -> Tokens] : n \in 0..MaxTranscriptLen}

\* The opinions of the members of roster whose index is in alive.
OpinionsOf(roster, alive) ==
    SelectSeq([i \in 1..Len(roster) |-> [llm_name |-> roster[i], response |-> i]],
              LAMBDA o : o.response \in alive)

\* The (reviewer, pool) pairs get_review hands to the parser: over every
\* roster, every set of surviving opinions and every reviewer of the roster.
ParseCalls ==
    {pc \in UNION {UNION {{[reviewer_name |-> rs[j],
                            pool |-> ReviewPool(AnonBundle(OpinionsOf(rs, alive)), rs[j])] :
                              j \in 1..Len(rs)} :
                          alive \in SUBSET (1..Len(rs))} :
                   rs \in Rosters} :
        pc.pool # <<>>}

InitParse ==
    /\ cfg \in {c \in ConcConfigs : c.chairman_mode = "local" /\ c.chairman_remote_base_url = None}
    /\ run = [r \in RunIds |-> [IdleRun EXCEPT !.pc = "unused"]]
    /\ _sessions = EmptyMap
    /\ _inflight = 0
    /\ _status_cache = EmptyMap
    /\ _latency_cache = {}
    /\ \E c \in ParseCalls, t \in Transcripts :
          parse_args = Some([reviewer_name |-> c.reviewer_name, review_text |-> t,
                             pool |-> c.pool])
    /\ parse_result = None
    /\ probe = None
    /\ token_call = None

\* One call of _parse_review_response.
ParseReview ==
    /\ parse_args # None
    /\ parse_result = None
    /\ parse_result' = Some(_parse_review_response(parse_args[1].reviewer_name,
                                                   parse_args[1].review_text,
                                                   parse_args[1].pool))
    /\ UNCHANGED <<cfg, run, _sessions, _inflight, _status_cache, _latency_cache, parse_args,
                 probe, token_call>>

SpecParse == InitParse /\ [][ParseReview]_vars

\* ------------------------------------ the review parser on sectioned text
\* A reviewer of a council of MaxCandidates + 1 members of distinct names,
\* all of whose opinions survived, answers label by label: for each label it
\* writes nothing, the bare label, the label with its two figures, or the whole
\* template, and it writes the labels in any order.
SectionRoster == [i \in 1..Min2(MaxCandidates + 1, Len(NamePool)) |-> NamePool[i]]
SectionLabels == {Label(i - 1) : i \in 1..Len(SectionRoster)}
SectionShapes == {"absent", "bare", "figures", "template"}
SectionFigure == 5
Section(label, shape) ==
    CASE shape = "absent" -> <<>>
      [] shape = "bare" -> <<Tok("L", label)>>
      [] shape = "figures" -> <<Tok("L", label), Tok("Acc", 0), Tok("N", SectionFigure),
                                Tok("Ins", 0), Tok("N", SectionFigure)>>
      [] OTHER -> <<Tok("L", label), Tok("Acc", 0), Tok("N", SectionFigure),
                    Tok("Ins", 0), Tok("N", SectionFigure), Tok("Reas", 0)>>

Orders(S) == {f \in [1..Cardinality(S) -> S] : \A i, j \in DOMAIN f : i # j => f[i] # f[j]}
SectionTranscripts ==
    {Flatten([k \in DOMAIN o |-> Section(o[k], sh[o[k]])]) :
        o \in Orders(SectionLabels), sh \in [SectionLabels -> SectionShapes]}

SectionCalls ==
    {[reviewer_name |-> SectionRoster[j],
      pool |-> ReviewPool(AnonBundle(OpinionsOf(SectionRoster, DOMAIN SectionRoster)),
                          SectionRoster[j])] : j \in DOMAIN SectionRoster}

InitSections ==
    /\ cfg \in {c \in ConcConfigs : c.chairman_mode = "local" /\ c.chairman_remote_base_url = None}
    /\ run = [r \in RunIds |-> [IdleRun EXCEPT !.pc = "unused"]]
    /\ _sessions = EmptyMap
    /\ _inflight = 0
    /\ _status_cache = EmptyMap
    /\ _latency_cache = {}
    /\ \E c \in SectionCalls, t \in SectionTranscripts :
          parse_args = Some([reviewer_name |-> c.reviewer_name, review_text |-> t,
                             pool |-> c.pool])
    /\ parse_result = None
    /\ probe = None
    /\ token_call = None

SpecSections == InitSections /\ [][ParseReview]_vars


\* ------------------------------------------------------------------ claims
Range(f) == {f[x] : x \in DOMAIN f}
Last(s) == s[Len(s)]
IsPrefix(s, t) == Len(s) <= Len(t) /\ \A i \in 1..Len(s) : s[i] = t[i]
Streaming(r) == run[r].mode = "streaming"
Stages(snaps) == [k \in 1..Len(snaps) |-> snaps[k].stage]

StageOrder == <<PENDING, FIRST_OPINIONS, REVIEW_RANKING, CHAIRMAN_SYNTHESIS, COMPLETED>>

\* A prefix of the stage order, or a proper prefix of it followed by one ERROR.
WellStaged(log) ==
    \/ IsPrefix(log, StageOrder)
    \/ /\ Len(log) >= 2
       /\ Last(log) = ERROR
       /\ Len(log) - 1 < Len(StageOrder)
       /\ IsPrefix(SubSeq(log, 1, Len(log) - 1), StageOrder)

\* C1: in both runners and whatever the backends answer, the values assigned
\* to session.stage form a prefix of PENDING, FIRST_OPINIONS, REVIEW_RANKING,
\* CHAIRMAN_SYNTHESIS, COMPLETED, optionally followed by one ERROR; nothing is
\* assigned after COMPLETED or ERROR, and the stage is the last value assigned.
C1_StageSequence ==
    \A r \in RunIds :
        Created(r) => /\ WellStaged(Sess(r).stage_log)
                      /\ Sess(r).stage = Last(Sess(r).stage_log)

C1_Witness ==
    \E r \in RunIds :
        /\ Created(r)
        /\ Sess(r).stage_log = <<PENDING, FIRST_OPINIONS, REVIEW_RANKING,
                                 CHAIRMAN_SYNTHESIS, ERROR>>

\* Phase 1 of run r has ended and left no opinion.
ZeroOpinions(r) ==
    /\ Created(r)
    /\ FIRST_OPINIONS \in Range(Sess(r).stage_log)
    /\ run[r].pc # "phase1"
    /\ Sess(r).first_opinions = <<>>

\* C2: when phase 1 ends with zero opinions, _stage_reviews and
\* _stage_chairman fail on their precondition before any node call and before
\* touching the stage: the run never enters phase 2 or 3, the stage never is
\* REVIEW_RANKING or CHAIRMAN_SYNTHESIS, only opinion requests were sent, and
\* once _stage_reviews has been invoked the session is in ERROR with the
\* precondition's message.
C2_ZeroOpinionsFail ==
    \A r \in RunIds :
        ZeroOpinions(r) =>
            LET s == Sess(r)
                viaChairman == StageChairman(run[r])
            IN /\ run[r].pc \in {"raised", "yield_phase1", "yield_error", "exhausted", "closed"}
               /\ REVIEW_RANKING \notin Range(s.stage_log)
               /\ CHAIRMAN_SYNTHESIS \notin Range(s.stage_log)
               /\ \A k \in 1..Len(run[r].sent) : run[r].sent[k].kind = "opinion"
               /\ s.review_results = None /\ s.chairman_synthesis = None
               /\ (run[r].pc \in {"raised", "yield_error", "exhausted"}
                      => /\ s.stage = ERROR
                         /\ s.error_message =
                               Some("Stage 2 requires stage 1 outputs (first_opinions)."))
               /\ (s.stage # ERROR => s.stage = FIRST_OPINIONS /\ s.error_message = None)
               \* _stage_chairman invoked on such a session fails the same way.
               /\ (run[r].pc = "yield_phase1"
                      => /\ viaChairman.sent = run[r].sent
                         /\ viaChairman.session[1].stage_log = Append(s.stage_log, ERROR)
                         /\ viaChairman.session[1].error_message =
                               Some("Stage 3 requires stage 1 outputs (first_opinions)."))

C2_Witness ==
    \E r \in RunIds :
        /\ ZeroOpinions(r)
        /\ run[r].pc = "raised"
        /\ Len(run[r].sent) = NMembers
        /\ NMembers >= 2

\* A streaming run whose every call succeeded and whose stream was consumed
\* to its last snapshot.
StreamedToCompletion(r) ==
    /\ Streaming(r)
    /\ run[r].pc \in {"yield_final", "exhausted"}
    /\ Sess(r).stage = COMPLETED
    /\ Len(Sess(r).first_opinions) = NMembers

\* C3 as stated: on a streaming run where all backends succeed, every stage
\* value the session takes is seen by the consumer in some snapshot.
C3_EveryStageObserved ==
    \A r \in RunIds :
        StreamedToCompletion(r) =>
            \A st \in Range(Sess(r).stage_log) : st \in Range(Stages(run[r].snapshots))

\* C3 amended: the stream starts with the PENDING snapshot taken at creation,
\* every yield hands over the session as it is then, and a run where all
\* backends succeed shows exactly PENDING, FIRST_OPINIONS, REVIEW_RANKING,
\* COMPLETED: CHAIRMAN_SYNTHESIS is replaced by COMPLETED (or ERROR) before the
\* next yield and is in no snapshot.
C3_SnapshotsPerPhase ==
    \A r \in RunIds :
        Streaming(r) =>
            LET snaps == run[r].snapshots
            IN /\ Len(snaps) >= 1
               /\ snaps[1].stage = PENDING
               /\ snaps[1].stage_log = <<PENDING>>
               /\ (run[r].pc \in YieldPoints => Last(snaps) = Sess(r))
               /\ CHAIRMAN_SYNTHESIS \notin Range(Stages(snaps))
               /\ (Sess(r).stage = COMPLETED =>
                      Stages(snaps) = <<PENDING, FIRST_OPINIONS, REVIEW_RANKING, COMPLETED>>)

C3_Witness ==
    \E r \in RunIds :
        /\ StreamedToCompletion(r)
        /\ run[r].pc = "exhausted"
        /\ CHAIRMAN_SYNTHESIS \in Range(Sess(r).stage_log)
        /\ NMembers >= 2


ErrorSnapshots(r) == {k \in 1..Len(run[r].snapshots) : run[r].snapshots[k].stage = ERROR}

\* C4: in run_council_streaming a failure of a phase gives exactly one
\* snapshot with stage ERROR and error_message set, that snapshot is the last
\* of the stream, and the generator never raises to its consumer: it ends
\* exhausted after a COMPLETED or an ERROR snapshot.
C4_StreamingErrorSnapshot ==
    \A r \in RunIds :
        Streaming(r) =>
            /\ run[r].pc # "raised"
            /\ Cardinality(ErrorSnapshots(r)) <= 1
            /\ \A k \in ErrorSnapshots(r) :
                  /\ k = Len(run[r].snapshots)
                  /\ run[r].snapshots[k].error_message # None
            /\ (Sess(r).stage = ERROR <=> ErrorSnapshots(r) # {})
            /\ (run[r].pc = "exhausted" =>
                  Last(run[r].snapshots).stage \in {COMPLETED, ERROR})

C4_Witness ==
    \E r \in RunIds :
        /\ Streaming(r)
        /\ run[r].pc = "exhausted"
        /\ Sess(r).stage_log = <<PENDING, FIRST_OPINIONS, REVIEW_RANKING,
                                 CHAIRMAN_SYNTHESIS, ERROR>>
        /\ Cardinality(ErrorSnapshots(r)) = 1

\* C5: in run_full_council a fatal failure of a phase leaves the stored
\* session in stage ERROR with error_message set, the session is still what
\* get_session returns for its identifier, and the call raises instead of
\* returning; a call that returns returns a COMPLETED session.
C5_BlockingFailure ==
    \A r \in RunIds :
        (Created(r) /\ Blocking(run[r])) =>
            /\ (run[r].pc = "raised" <=> Sess(r).stage = ERROR)
            /\ (run[r].pc = "returned" <=> Sess(r).stage = COMPLETED)
            /\ (Sess(r).stage = ERROR => Sess(r).error_message # None)
            /\ get_session(Sess(r).session_id) = run[r].session

C5_Witness ==
    \E r \in RunIds :
        /\ Created(r) /\ Blocking(run[r])
        /\ run[r].pc = "raised"
        /\ CHAIRMAN_SYNTHESIS \in Range(Sess(r).stage_log)
        /\ Sess(r).error_message = Some("timeout")
        /\ get_session(Sess(r).session_id) = run[r].session

\* The coroutine states in which a run has work ahead of it: a phase in
\* flight, or a generator suspended before its last phase.
Executing(r) ==
    run[r].pc \in {"yield_pending", "phase1", "yield_phase1", "phase2", "yield_phase2", "phase3"}

\* C6 as stated: at every state another task or the stream consumer can see,
\* active_sessions is the number of sessions executing the pipeline, and no
\* session in stage COMPLETED or ERROR is counted.
C6_ActiveIsExecuting ==
    active_sessions = Cardinality({r \in RunIds : Executing(r)})

\* The runs that were entered and have not left through finally.
Live(r) == run[r].pc \notin {"idle", "unused", "returned", "raised", "exhausted", "closed"}

\* C7: the in-flight counter goes up once when a run is entered and down once
\* when it is left, by return, by raise or by the end of the stream: it is the
\* number of runs entered and not left, so it is never negative and it is 0
\* once every started run has ended.
C7_InflightBalanced ==
    /\ active_sessions >= 0
    /\ active_sessions = Cardinality({r \in RunIds : Live(r)})
    /\ ((\A r \in RunIds : ~Live(r)) => active_sessions = 0)

C7_Witness ==
    /\ active_sessions = 0
    /\ \A r \in RunIds : run[r].pc \in {"returned", "raised", "exhausted", "closed"}
    /\ \E r \in RunIds : run[r].pc = "raised"
    /\ \E r \in RunIds : run[r].pc = "exhausted" /\ Sess(r).stage = ERROR

\* Every ReviewScore a run holds: gathered so far, or stored on the session.
ScoresOf(r) ==
    (IF run[r].pc = "phase2"
     THEN UNION {Range(run[r].slots[j].val) : j \in 1..Len(run[r].slots)}
     ELSE {})
    \cup (IF Created(r) /\ Sess(r).review_results # None
          THEN Range(Sess(r).review_results[1].reviews)
          ELSE {})

\* C8: no ReviewScore of a review round has its reviewer as the owner of the
\* reviewed answer, whatever the roster, the surviving opinions and the
\* transcripts.
C8_NoSelfReview ==
    \A r \in RunIds : \A sc \in ScoresOf(r) : sc.reviewer_name # sc.original_name

C8_Witness ==
    \E r \in RunIds :
        /\ Created(r)
        /\ Sess(r).review_results # None
        /\ Len(Sess(r).review_results[1].reviews) >= 2

\* C9 as stated: within a review round the labels and the owners of the
\* phase-1 opinions are in bijection: no two candidates share a label and no
\* two candidates share an owner name, for every roster the loader produces.
C9_LabelsBijective ==
    \A r \in RunIds :
        Created(r) =>
            LET bundle == AnonBundle(Sess(r).first_opinions)
            IN \A i, j \in 1..Len(bundle) :
                  i # j => /\ bundle[i].anon # bundle[j].anon
                           /\ bundle[i].orig # bundle[j].orig

ParsedScores == IF parse_result = None THEN {} ELSE Range(parse_result[1])

\* C10: every ReviewScore of _parse_review_response has its accuracy and its
\* insight in 1..10 and its score equal to floor((accuracy + insight) / 2),
\* whatever figures the transcript holds and on the fallback paths too.
C10_ScoresInRange ==
    \A sc \in ParsedScores :
        /\ sc.accuracy_score \in 1..10
        /\ sc.insight_score \in 1..10
        /\ 2 * sc.score <= sc.accuracy_score + sc.insight_score
        /\ sc.accuracy_score + sc.insight_score < 2 * sc.score + 2

C10_Witness ==
    \E sc \in ParsedScores :
        /\ sc.accuracy_score = 1
        /\ sc.insight_score = 10
        /\ sc.score = 5
        /\ \E k \in 1..Len(parse_args[1].review_text) :
              parse_args[1].review_text[k] = Tok("N", 0)

\* The owners of the opinions of a session and the scores naming an owner.
Owners(session) == {session.first_opinions[i].llm_name : i \in 1..Len(session.first_opinions)}
ScoresNaming(reviews, n) == SelectSeq(reviews, LAMBDA sc : sc.original_name = n)

\* C11 as stated: the ranking table of a review round has an entry for every
\* owner of a phase-1 opinion: the mean (sum over count) of the composite
\* scores naming that owner, and 0.0 for an owner no score names.
C11_RankingTotal ==
    \A r \in RunIds :
        (Created(r) /\ Sess(r).review_results # None) =>
            LET rr == Sess(r).review_results[1]
            IN \A n \in Owners(Sess(r)) :
                  /\ n \in DOMAIN rr.rankings
                  /\ LET named == ScoresNaming(rr.reviews, n)
                     IN IF named = <<>>
                        THEN rr.rankings[n][1] = 0
                        ELSE rr.rankings[n] =
                                <<SumSeq([k \in 1..Len(named) |-> named[k].score]), Len(named)>>

\* The part of a transcript that belongs to a label: from the first occurrence
\* of the label up to the next label of any candidate, or to the end.
OwnSection(text, label) ==
    LET l == FirstFrom(text, 1, "L", label)
        nexts == {j \in (l + 1)..Len(text) : text[j].k = "L"}
        stop == IF nexts = {} THEN Len(text)
                ELSE (CHOOSE j \in nexts : \A h \in nexts : j <= h) - 1
    IN IF l = 0 THEN <<>> ELSE SubSeq(text, l, stop)

Placeholders == {"No detailed reasoning extracted.", "Parsing failed; default scores applied."}

\* C12 as stated: a label whose own section of the transcript holds no
\* accuracy and insight figure gets accuracy 7, insight 7 and a placeholder
\* reasoning, whatever the transcript holds for the other labels.
C12_LabelsIndependent ==
    \A sc \in ParsedScores :
        ScoreMatch(sc.reviewed_name, OwnSection(parse_args[1].review_text, sc.reviewed_name)) = <<>>
            => /\ sc.accuracy_score = DefaultFigure
               /\ sc.insight_score = DefaultFigure
               /\ sc.reasoning \in Placeholders

\* Remote synthesis is selected and no base URL is configured.
RemoteUnconfigured == cfg.chairman_mode = "remote" /\ cfg.chairman_remote_base_url = None
MissingUrlMessage == "chairman.mode=remote but chairman.remote.base_url is missing in config.yaml"
SynthesisRequests(r) ==
    {k \in 1..Len(run[r].sent) : run[r].sent[k].kind \in {"synthesis_remote", "synthesis_local"}}

\* C13: with chairman mode remote and no base URL, get_chairman_synthesis
\* raises its configuration error without sending anything: no POST to a
\* remote service and no generate call to the local chairman is ever issued,
\* phase 3 never has a call in flight, and once the session has reached
\* CHAIRMAN_SYNTHESIS it is in ERROR with that error's message.
C13_RemoteWithoutUrl ==
    \A r \in RunIds :
        (Created(r) /\ RemoteUnconfigured) =>
            /\ SynthesisRequests(r) = {}
            /\ run[r].pc # "phase3"
            /\ run[r].chair_call = "none"
            /\ Sess(r).stage # COMPLETED
            /\ Sess(r).chairman_synthesis = None
            /\ (CHAIRMAN_SYNTHESIS \in Range(Sess(r).stage_log)
                   => /\ Sess(r).stage = ERROR
                      /\ Sess(r).error_message = Some(MissingUrlMessage))

C13_Witness ==
    \E r \in RunIds :
        /\ Created(r) /\ RemoteUnconfigured
        /\ Sess(r).stage_log = <<PENDING, FIRST_OPINIONS, REVIEW_RANKING,
                                 CHAIRMAN_SYNTHESIS, ERROR>>
        /\ Sess(r).error_message = Some(MissingUrlMessage)

\* C14 as stated: under a configuration that makes synthesis impossible the
\* session fails before any request of any phase is sent to a backend.
C14_ConfigErrorBeforeIO ==
    \A r \in RunIds :
        (Created(r) /\ RemoteUnconfigured /\ Sess(r).stage = ERROR) => run[r].sent = <<>>

DistinctNames == \A i, j \in 1..NMembers : i # j => Roster[i] # Roster[j]
AllSucceeded(r) == \A c \in run[r].done : c.ok
Ended(r) == Created(r) /\ Sess(r).stage \in {COMPLETED, ERROR}

\* C15: with N >= 2 members of distinct names, a local chairman and every
\* call succeeding, the session that ends is COMPLETED with N first opinions,
\* at most N * (N - 1) review scores (here exactly that many: one per
\* reviewer and other member), N ranking entries and a synthesis.
C15_EndToEnd ==
    \A r \in RunIds :
        (/\ Ended(r) /\ AllSucceeded(r)
         /\ NMembers >= 2 /\ DistinctNames /\ cfg.chairman_mode = "local") =>
            /\ Sess(r).stage = COMPLETED
            /\ Len(Sess(r).first_opinions) = NMembers
            /\ Sess(r).review_results # None
            /\ Len(Sess(r).review_results[1].reviews) <= NMembers * (NMembers - 1)
            /\ Len(Sess(r).review_results[1].reviews) = NMembers * (NMembers - 1)
            /\ Cardinality(DOMAIN Sess(r).review_results[1].rankings) = NMembers
            /\ DOMAIN Sess(r).review_results[1].rankings = Owners(Sess(r))
            /\ Sess(r).chairman_synthesis # None

C15_Witness ==
    \E r \in RunIds :
        /\ Ended(r) /\ AllSucceeded(r)
        /\ NMembers >= 2 /\ DistinctNames /\ cfg.chairman_mode = "local"
        /\ Cardinality(run[r].done) = 2 * NMembers + 1
        /\ Sess(r).stage = COMPLETED

\* The calls of run r that are in flight.
Outstanding(r) ==
    {i \in 1..Len(run[r].slots) : run[r].slots[i].st = "pending"}
        \cup (IF run[r].pc = "phase3" THEN {0} ELSE {})
\* The requests a step of run r puts on the wire.
NewRequests(r) == SubSeq(run'[r].sent, Len(run[r].sent) + 1, Len(run'[r].sent))

\* C16: within a session a step that issues a review call or the chairman's
\* call is taken only when no call of the session is outstanding (the gather
\* of the previous phase has returned), review calls are issued only after
\* the opinion calls and the chairman's call only after the review round.
C16_PhasesSequential ==
    [][\A r \in RunIds :
          \A k \in 1..Len(NewRequests(r)) :
              LET q == NewRequests(r)[k]
              IN /\ q.kind # "opinion" => Outstanding(r) = {}
                 /\ q.kind = "opinion" => run[r].sent = <<>>
                 /\ q.kind = "review" =>
                        /\ Cardinality({c \in run[r].done : c.kind = "opinion"}) = NMembers
                        /\ \A c \in run[r].done : c.kind = "opinion"
                 /\ q.kind \in {"synthesis_local", "synthesis_remote"} =>
                        /\ run'[r].session[1].review_results # None
                        /\ \A h \in 1..Len(run[r].sent) :
                              run[r].sent[h].kind = "review" =>
                                  \E c \in run[r].done :
                                      c.kind = "review" /\ c.idx = run[r].sent[h].idx]_vars

C16_Witness ==
    \E r \in RunIds :
        /\ NMembers >= 2
        /\ run[r].pc = "phase3"
        /\ Cardinality({k \in 1..Len(run[r].sent) : run[r].sent[k].kind = "review"}) = NMembers
        /\ SynthesisRequests(r) # {}

\* The members of run r whose phase-1 call succeeded.
Alive(r) == {c.idx : c \in {x \in run[r].done : x.kind = "opinion" /\ x.ok}}
PhaseOneOver(r) ==
    /\ Created(r)
    /\ FIRST_OPINIONS \in Range(Sess(r).stage_log)
    /\ run[r].pc # "phase1"

\* C17: a failing member never aborts phase 1. While calls are outstanding the
\* session stays in FIRST_OPINIONS; once the phase is over all N calls have
\* ended and first_opinions is the list of the members that succeeded, in
\* roster order, whatever the order of completion, so the labels are a
\* function of the roster and of who succeeded; an empty list is a result,
\* and the only error that can follow FIRST_OPINIONS is the precondition of
\* the review phase on an empty list.
C17_OpinionsInRosterOrder ==
    \A r \in RunIds :
        /\ run[r].pc = "phase1" => Sess(r).stage = FIRST_OPINIONS
        /\ PhaseOneOver(r) =>
              /\ Cardinality({c \in run[r].done : c.kind = "opinion"}) = NMembers
              /\ Sess(r).first_opinions = OpinionsOf(Roster, Alive(r))
              /\ AnonBundle(Sess(r).first_opinions) = AnonBundle(OpinionsOf(Roster, Alive(r)))
              /\ (Sess(r).stage_log = <<PENDING, FIRST_OPINIONS, ERROR>>
                     => /\ Alive(r) = {}
                        /\ Sess(r).error_message =
                              Some("Stage 2 requires stage 1 outputs (first_opinions)."))

C17_Witness ==
    \E r \in RunIds :
        /\ PhaseOneOver(r)
        /\ NMembers >= 2
        /\ Alive(r) = {NMembers}
        /\ Len(Sess(r).first_opinions) = 1
        /\ Sess(r).first_opinions[1].llm_name = Roster[NMembers]
        /\ REVIEW_RANKING \in Range(Sess(r).stage_log)

\* The reviewers of run r whose call failed.
FailedReviewers(r) == {c.idx : c \in {x \in run[r].done : x.kind = "review" /\ ~x.ok}}
ReviewsOver(r) == Created(r) /\ Sess(r).review_results # None

\* C18: the review round has no fatal outcome. A reviewer whose call fails
\* adds no score and the others keep theirs: the list holds one score per
\* candidate of every reviewer that did not fail, in reviewer order. The round
\* always returns, also with every reviewer failed, and the session then goes
\* to CHAIRMAN_SYNTHESIS: ERROR never follows REVIEW_RANKING directly.
C18_ReviewRoundNeverFatal ==
    \A r \in RunIds :
        /\ (Created(r) /\ REVIEW_RANKING \in Range(Sess(r).stage_log) /\ run[r].pc # "phase2")
              => ReviewsOver(r)
        /\ (Created(r) /\ Sess(r).stage = ERROR /\ REVIEW_RANKING \in Range(Sess(r).stage_log))
              => CHAIRMAN_SYNTHESIS \in Range(Sess(r).stage_log)
        /\ ReviewsOver(r) =>
              LET pools == ReviewPools(Sess(r))
                  reviews == Sess(r).review_results[1].reviews
                  kept == Flatten([j \in 1..NMembers |->
                              IF j \in FailedReviewers(r) THEN <<>>
                              ELSE [k \in 1..Len(pools[j]) |->
                                       [reviewer_name |-> Roster[j],
                                        original_name |-> pools[j][k].orig]]])
              IN /\ Len(reviews) = Len(kept)
                 /\ \A k \in 1..Len(reviews) :
                       /\ reviews[k].reviewer_name = kept[k].reviewer_name
                       /\ reviews[k].original_name = kept[k].original_name
                 /\ (run[r].pc \notin {"yield_phase2", "closed"}
                        => CHAIRMAN_SYNTHESIS \in Range(Sess(r).stage_log))

C18_Witness ==
    \E r \in RunIds :
        /\ ReviewsOver(r)
        /\ NMembers >= 2
        /\ FailedReviewers(r) = 1..NMembers
        /\ Sess(r).review_results[1].reviews = <<>>
        /\ Sess(r).stage = COMPLETED

\* C19 as stated: every session created is still what get_session returns
\* for its identifier and is among get_all_sessions, distinct sessions have
\* distinct identifiers, and total_sessions is the number of sessions created.
C19_StoreKeepsEverySession ==
    /\ \A r \in RunIds :
          Created(r) => /\ get_session(Sess(r).session_id) = run[r].session
                        /\ Sess(r) \in get_all_sessions
    /\ \A r1, r2 \in RunIds :
          (Created(r1) /\ Created(r2) /\ r1 # r2) => Sess(r1).session_id # Sess(r2).session_id
    /\ total_sessions = Cardinality({r \in RunIds : Created(r)})

\* The node names with a generate call of run r in flight.
InFlightNames(r) ==
    {Roster[i] : i \in {j \in 1..Len(run[r].slots) : run[r].slots[j].st = "pending"}}
        \cup (IF run[r].pc = "phase3" /\ run[r].chair_call = "local"
              THEN {cfg.chairman[1]} ELSE {})

\* C20 as stated: whenever a generate call to a node is in flight, the cached
\* status of that node is BUSY.
C20_BusyWhileInFlight ==
    \A r \in RunIds : \A n \in InFlightNames(r) : get_node_status(n) = BUSY

\* C20 amended: in one session over members of distinct names (no second
\* call and no probe on a node while a call to it is in flight) the cached
\* status of a node is BUSY for as long as its call is in flight, and when
\* the call has ended it is ONLINE after a success and ERROR after a failure.
C20_BusyDuringCall ==
    DistinctNames =>
        \A r \in RunIds :
            /\ \A n \in InFlightNames(r) : get_node_status(n) = BUSY
            /\ run[r].pc \in {"phase1", "phase2"} =>
                  \A c \in run[r].done :
                      (c.kind = (IF run[r].pc = "phase1" THEN "opinion" ELSE "review"))
                          => get_node_status(Roster[c.idx]) = (IF c.ok THEN ONLINE ELSE ERROR)

C20_Witness ==
    \E r \in RunIds :
        /\ DistinctNames /\ NMembers >= 2
        /\ run[r].pc = "phase2"
        /\ run[r].slots[1].st = "pending" /\ get_node_status(Roster[1]) = BUSY
        /\ run[r].slots[2].st # "pending" /\ get_node_status(Roster[2]) = ONLINE

Terminal == {COMPLETED, ERROR}

\* C21: when every call returns or fails and the consumer keeps pulling, a
\* blocking run ends (returns or raises) and a stream ends (exhausted, unless
\* its consumer closed it); a run that has ended that way left its session in
\* COMPLETED or ERROR, a stream has at most four snapshots and the last
\* snapshot of an exhausted stream is in COMPLETED or ERROR.
C21_EventuallyTerminal ==
    \A r \in RunIds :
        /\ [](run[r].pc \in {"returned", "raised", "exhausted"} => Sess(r).stage \in Terminal)
        /\ [](Len(run[r].snapshots) <= Cardinality(YieldPoints) - 1)
        /\ [](run[r].pc = "exhausted" => Last(run[r].snapshots).stage \in Terminal)
        /\ (Blocking(run[r]) ~> run[r].pc \in {"returned", "raised"})
        /\ (Streaming(r) ~> run[r].pc \in {"exhausted", "closed"})

C21_Witness ==
    \E r \in RunIds :
        /\ Streaming(r)
        /\ run[r].pc = "exhausted"
        /\ Len(run[r].snapshots) = Cardinality(YieldPoints) - 1
        /\ Last(run[r].snapshots).stage = COMPLETED
        /\ NMembers >= 2

\* The fields of a session the two modes are compared on.
Core(session) ==
    [stage |-> session.stage, first_opinions |-> session.first_opinions,
     review_results |-> session.review_results,
     synthesis |-> session.chairman_synthesis # None,
     error_message |-> session.error_message]
PhaseKind(pc) ==
    CASE pc = "phase1" -> "opinion" [] pc = "phase2" -> "review" [] OTHER -> "synthesis"

\* C22: a blocking run that has ended and a stream consumed to its end whose
\* calls ended the same way sent the same requests and agree on stage,
\* first_opinions, review_results, presence of a synthesis and error_message,
\* the last snapshot being the stream's session; the blocking call has raised
\* exactly when that snapshot is in ERROR. The stream never waits for a call
\* the blocking run did not make.
C22_ModesAgree ==
    \A b, t \in RunIds :
        (Blocking(run[b]) /\ run[b].pc \in {"returned", "raised"} /\ Streaming(t)
         /\ run[t].done \subseteq run[b].done) =>
            /\ \A i \in Outstanding(t) :
                  \E c \in run[b].done : c.kind = PhaseKind(run[t].pc) /\ c.idx = i
            /\ IsPrefix(run[t].sent, run[b].sent)
            /\ (run[t].pc = "exhausted" /\ run[t].done = run[b].done) =>
                  /\ run[t].sent = run[b].sent
                  /\ Core(Last(run[t].snapshots)) = Core(Sess(b))
                  /\ Last(run[t].snapshots) = Sess(t)
                  /\ (run[b].pc = "raised" <=> Last(run[t].snapshots).stage = ERROR)

C22_Witness ==
    \E b, t \in RunIds :
        /\ Blocking(run[b]) /\ run[b].pc = "raised"
        /\ Streaming(t) /\ run[t].pc = "exhausted"
        /\ run[t].done = run[b].done
        /\ NMembers >= 2
        /\ Cardinality(run[b].done) = 2 * NMembers + 1
        /\ Sess(t).error_message = Some("timeout")

Unanswered(r) ==
    {k \in 1..Len(run[r].sent) :
        ~\E c \in run[r].done :
            /\ c.idx = run[r].sent[k].idx
            /\ c.kind = (IF run[r].sent[k].idx = 0 THEN "synthesis" ELSE run[r].sent[k].kind)}

C24_SessionsIndependent ==
    /\ [][\A r \in RunIds :
              run'[r] # run[r] => \A o \in RunIds \ {r} : run'[o] = run[o]]_vars
    /\ [](\A r1, r2 \in RunIds :
              (Ended(r1) /\ Ended(r2) /\ run[r1].done = run[r2].done)
                  => Core(Sess(r1)) = Core(Sess(r2)))

C24_Witness ==
    \E r1, r2 \in RunIds :
        /\ r1 # r2
        /\ Created(r1) /\ Sess(r1).stage = ERROR
        /\ Created(r2) /\ Sess(r2).stage = COMPLETED
        /\ Sess(r2).error_message = None
        /\ Blocking(run[r1]) /\ Streaming(r2)

\* C25: check_node_health never raises; a non-200 reply gives (ERROR, absent),
\* a timeout (OFFLINE, absent), any other transport or decoding failure
\* (OFFLINE, absent), a 200 reply (ONLINE, latency) whether or not the model
\* is installed; the status cache entry of the node equals the status
\* returned, and the latency cache gains that node's entry on success and is
\* untouched otherwise.
ProbeReturn(outcome) ==
    CASE outcome \in {"ok", "model_missing"} -> <<ONLINE, TRUE>>
      [] outcome = "bad_status" -> <<ERROR, FALSE>>
      [] OTHER -> <<OFFLINE, FALSE>>
C25_HealthProbeTotal ==
    /\ [](\A o \in ProbeOutcomes : ~HealthResult(o).raised)
    /\ [][(\E node \in ProbedNodes, o \in ProbeOutcomes : CheckNodeHealth(node, o)) =>
            LET p == probe'[1]
            IN /\ <<p.status, p.latency # None>> = ProbeReturn(p.outcome)
               /\ p.node \in DOMAIN _status_cache'
               /\ _status_cache'[p.node] = p.status
               /\ _latency_cache' = IF p.status = ONLINE
                                     THEN _latency_cache \cup {p.node}
                                     ELSE _latency_cache
               /\ \A x \in DOMAIN _status_cache \ {p.node} :
                      _status_cache'[x] = _status_cache[x]]_vars

\* A probe that failed on a node whose generate call is in flight: the entry
\* that was BUSY now holds the probe's status and no latency was recorded.
C25_Witness ==
    /\ probe # None
    /\ probe[1].outcome = "timeout"
    /\ probe[1].node \notin _latency_cache
    /\ _status_cache[probe[1].node] = OFFLINE
    /\ \E r \in RunIds : Outstanding(r) # {}

\* C26: the token count generate_response returns, over the four combinations
\* of presence of eval_count and prompt_eval_count in the reply: the
\* completion count whenever it is reported (alone or with the prompt count),
\* absent when it is not (the sum of both is for the case where both are
\* reported and the completion count is not, which no reply is in).
Reported(key) == key \in DOMAIN token_call[1].payload
C26_TokenAccounting ==
    (token_call # None /\ token_call[1].returned) =>
        LET p == token_call[1].payload
            t == token_call[1].tokens
        IN /\ (Reported("eval_count") /\ Reported("prompt_eval_count"))
                 => t = Some(p["eval_count"])
           /\ (Reported("eval_count") /\ ~Reported("prompt_eval_count"))
                 => t = Some(p["eval_count"])
           /\ (~Reported("eval_count") /\ Reported("prompt_eval_count")) => t = None
           /\ (~Reported("eval_count") /\ ~Reported("prompt_eval_count")) => t = None

\* Both counters reported and different from zero: the completion count is
\* returned, not the sum.
C26_Witness ==
    /\ token_call # None
    /\ token_call[1].returned
    /\ Reported("eval_count") /\ Reported("prompt_eval_count")
    /\ token_call[1].payload["prompt_eval_count"] > 0
    /\ token_call[1].tokens = Some(token_call[1].payload["eval_count"])

\* C27: a session under remote mode never sends a generate request to the
\* local chairman node, whether the remote call succeeds, fails or is never
\* made; a session under local mode never sends a request to the remote
\* service; and once the remote call has failed the session is in ERROR with
\* the failure as its message and no synthesis.
RequestsOfKind(r, kind) == {k \in 1..Len(run[r].sent) : run[r].sent[k].kind = kind}
SynthesisFailed(r) == \E c \in run[r].done : c.kind = "synthesis" /\ ~c.ok
C27_ChairmanModesExclusive ==
    \A r \in RunIds : Created(r) =>
        /\ cfg.chairman_mode = "remote" => RequestsOfKind(r, "synthesis_local") = {}
        /\ cfg.chairman_mode = "local" => RequestsOfKind(r, "synthesis_remote") = {}
        /\ (cfg.chairman_mode = "remote" /\ SynthesisFailed(r)) =>
               /\ Sess(r).stage = ERROR
               /\ Sess(r).chairman_synthesis = None
               /\ Sess(r).error_message \in {Some(RemoteError(o)) : o \in GenerateOutcomes \ {"ok"}}
               /\ Cardinality(RequestsOfKind(r, "synthesis_remote")) = 1

C27_Witness ==
    \E r \in RunIds :
        /\ Created(r)
        /\ cfg.chairman_mode = "remote"
        /\ SynthesisFailed(r)
        /\ RequestsOfKind(r, "synthesis_remote") # {}
        /\ Sess(r).stage = ERROR

\* C28 as stated: once the review round of a session has begun, the pool of
\* reviewer j is the anonymized bundle without the candidate member j wrote
\* (and nothing else is missing); a reviewer with an empty pool is sent no
\* request; a reviewer that answers yields one score per candidate of its
\* pool, in order, each carrying the candidate's label and true owner, no
\* owner twice.
WrittenBy(cand, j) == cand.txt = j
AllButOwn(bundle, j) == SelectSeq(bundle, LAMBDA c : ~WrittenBy(c, j))
ReviewRoundBegun(r) == Created(r) /\ REVIEW_RANKING \in Range(Sess(r).stage_log)
ScoresMatchPool(scores, pool) ==
    /\ Len(scores) = Len(pool)
    /\ \A k \in 1..Len(pool) :
          /\ scores[k].reviewed_name = pool[k].anon
          /\ scores[k].original_name = pool[k].orig
    /\ \A k1, k2 \in 1..Len(scores) :
          k1 # k2 => scores[k1].original_name # scores[k2].original_name
C28_ReviewerSeesAllButOwn ==
    \A r \in RunIds : ReviewRoundBegun(r) =>
        \A j \in 1..NMembers :
            LET pool == ReviewPools(Sess(r))[j]
            IN /\ pool = AllButOwn(AnonBundle(Sess(r).first_opinions), j)
               /\ pool = <<>> =>
                     ~\E k \in RequestsOfKind(r, "review") : run[r].sent[k].idx = j
               /\ \A raw \in PipelineTranscripts(pool) :
                     ScoresMatchPool(GetReview(Roster[j], raw, pool, "ok"), pool)

\* C29: whatever the outcomes of its calls, a session sends each council
\* member at most one opinion request and at most one review request, and
\* sends at most one synthesis request (to the local chairman or to the
\* remote service, not one to each).
RequestsTo(r, kind, i) == {k \in RequestsOfKind(r, kind) : run[r].sent[k].idx = i}
C29_NoRetry ==
    \A r \in RunIds : Created(r) =>
        /\ \A i \in 1..NMembers :
              /\ Cardinality(RequestsTo(r, "opinion", i)) <= 1
              /\ Cardinality(RequestsTo(r, "review", i)) <= 1
        /\ Cardinality(SynthesisRequests(r)) <= 1
        /\ \A k \in 1..Len(run[r].sent) :
              run[r].sent[k].kind \in {"opinion", "review", "synthesis_local", "synthesis_remote"}

\* A session that has ended after a review call and the chairman's call both
\* failed, having sent five requests in all: two opinions, two reviews, one
\* synthesis.
C29_Witness ==
    \E r \in RunIds :
        /\ Ended(r)
        /\ NMembers = 2
        /\ \E c \in run[r].done : c.kind = "review" /\ ~c.ok
        /\ SynthesisFailed(r)
        /\ Len(run[r].sent) = 5

\* C30: in every state another task can see, and in every snapshot a stream
\* has handed out, the fields of a session agree: COMPLETED implies the
\* synthesis, completed_at and total_latency_ms are set and first_opinions is
\* not empty; ERROR holds exactly when error_message is set; a synthesis is
\* set only in COMPLETED; review_results is set only beside a non-empty
\* first_opinions.
FieldsConsistent(session) ==
    /\ session.stage = COMPLETED =>
          /\ session.chairman_synthesis # None
          /\ session.completed_at # None
          /\ session.total_latency_ms # None
          /\ session.first_opinions # <<>>
    /\ session.stage = ERROR <=> session.error_message # None
    /\ session.chairman_synthesis # None => session.stage = COMPLETED
    /\ session.review_results # None => session.first_opinions # <<>>
C30_FieldsConsistent ==
    \A r \in RunIds : Created(r) =>
        /\ FieldsConsistent(Sess(r))
        /\ \A k \in 1..Len(run[r].snapshots) : FieldsConsistent(run[r].snapshots[k])

\* A stream that has handed out its COMPLETED snapshot, reviews recorded.
C30_Witness ==
    \E r \in RunIds :
        /\ Streaming(r)
        /\ Len(run[r].snapshots) = 4
        /\ Last(run[r].snapshots).stage = COMPLETED
        /\ Last(run[r].snapshots).review_results # None
        /\ Last(run[r].snapshots).completed_at # None

\* C31: the except clause of a runner changes only stage and error_message
\* of the session it is given; a step never changes query or session_id, a
\* step that ends in ERROR keeps the first_opinions and review_results that
\* were recorded before it, and a session in ERROR changes no more; a session
\* in ERROR has no synthesis, completed_at or total_latency_ms, and one that
\* failed in the synthesis phase carries the opinions phase 1 collected and
\* the result of the review round.
ResultFields == {"session_id", "query", "first_opinions", "review_results",
                 "chairman_synthesis", "completed_at", "total_latency_ms"}
SameResults(s, t) == \A f \in ResultFields : s[f] = t[f]
CollectedOpinions(r) ==
    Flatten([i \in 1..NMembers |->
                IF \E c \in run[r].done : c.kind = "opinion" /\ c.idx = i /\ c.ok
                THEN <<[llm_name |-> Roster[i], response |-> i]>> ELSE <<>>])
FailedInSynthesis(r) ==
    Created(r) /\ Sess(r).stage = ERROR /\ CHAIRMAN_SYNTHESIS \in Range(Sess(r).stage_log)
C31_FailureKeepsEarlierResults ==
    /\ [](\A r \in RunIds : Created(r) =>
              /\ SameResults(Sess(r), OnPipelineError(Sess(r), "e"))
              /\ Sess(r).stage = ERROR =>
                    /\ Sess(r).chairman_synthesis = None
                    /\ Sess(r).completed_at = None
                    /\ Sess(r).total_latency_ms = None
              /\ FailedInSynthesis(r) =>
                    /\ Sess(r).first_opinions # <<>>
                    /\ Sess(r).first_opinions = CollectedOpinions(r)
                    /\ Sess(r).review_results # None)
    /\ [][\A r \in RunIds : Created(r) =>
              LET s == Sess(r)
                  t == run'[r].session[1]
              IN /\ t.query = s.query
                 /\ t.session_id = s.session_id
                 /\ s.stage = ERROR => t = s
                 /\ t.stage = ERROR =>
                       /\ s.first_opinions # <<>> => t.first_opinions = s.first_opinions
                       /\ s.review_results # None => t.review_results = s.review_results]_vars

\* A session whose chairman call failed after a review round that produced
\* scores: the opinions and the scores are still on it.
C31_Witness ==
    \E r \in RunIds :
        /\ FailedInSynthesis(r)
        /\ SynthesisFailed(r)
        /\ Len(Sess(r).first_opinions) = 2
        /\ Sess(r).review_results # None
        /\ Sess(r).review_results[1].reviews # <<>>

\* C32: under every interleaving of the generate calls of concurrent sessions
\* and of health probes, a node no generate call is in flight to is not BUSY
\* in the status cache (get_node_status gives ONLINE, ERROR or OFFLINE), and
\* the step in which a generate call ends without success leaves the node's
\* entry at ERROR.
InFlightSomewhere == UNION {InFlightNames(r) : r \in RunIds}
NodeOf(c) == IF c.kind = "synthesis" THEN cfg.chairman[1] ELSE Roster[c.idx]
C32_NeverStuckBusy ==
    /\ [](\A n \in ProbedNodes \cup DOMAIN _status_cache :
              n \notin InFlightSomewhere =>
                  get_node_status(n) \in {ONLINE, ERROR, OFFLINE})
    /\ [][\A r \in RunIds :
              \A c \in run'[r].done \ run[r].done :
                  ~c.ok => _status_cache'[NodeOf(c)] = ERROR]_vars

\* Two sessions had a call in flight to the same node, a probe ran meanwhile,
\* both calls have ended, the later one without success: the entry is ERROR.
C32_Witness ==
    \E r1, r2 \in RunIds :
        /\ r1 # r2
        /\ InFlightSomewhere = {}
        /\ probe # None /\ probe[1].node = Roster[1]
        /\ \E c \in run[r1].done : c.kind = "opinion" /\ c.ok
        /\ \E c \in run[r2].done : c.kind = "opinion" /\ ~c.ok
        /\ run[r1].pc = "phase1" /\ run[r2].pc = "phase1"
        /\ get_node_status(Roster[1]) = ERROR

====
